---- MODULE Spec2Model ----
(***************************************************************************)
(* A model of project.py: the face filter (find_faces), the crop and       *)
(* thumbnail step (get_faces, make_thumbnails), the contact sheet builder  *)
(* (make_contact_sheet), the compositor (concatenate_images) and the loop  *)
(* of do_project.  The cascade classifiers and the OCR engine are black    *)
(* boxes: what they return for a page is an input of the model.            *)
(***************************************************************************)
EXTENDS Integers, Sequences, FiniteSets, TLC

VARIABLES
    pc,             \* where the call under study stands
    args,           \* the arguments of the call under study
    ret,            \* the value the call returned (<<>> before it returns)
    idx,            \* do_project: 1-based position of the for loop in img_list
    contact_sheet   \* do_project: the local contact_sheet (Unbound before its first assignment)

vars == <<pc, args, ret, idx, contact_sheet>>

(***************************************************************************)
(* Bounds of the model.                                                    *)
(***************************************************************************)
MaxFaces == 3       \* boxes the face cascade returns for one page
MaxEyes == 2        \* boxes the eye cascade returns for one page
MaxThumbs == 11     \* thumbnails handed to make_contact_sheet
MaxDocs == 3        \* pages in the collection handed to do_project
MaxPageFaces == 6   \* validated faces on the fullest page of a collection

(***************************************************************************)
(* Images.  An image is its size, where it was cut from (src), and what    *)
(* was drawn on it, in drawing order per kind.                             *)
(***************************************************************************)
NoSrc == [title |-> 0, box |-> <<0, 0, 0, 0>>]

NewImage(width, height) ==
    [width |-> width, height |-> height, src |-> NoSrc,
     rects |-> <<>>, texts |-> <<>>, pastes |-> <<>>]

\* The local contact_sheet of do_project before any assignment to it.
Unbound == [width |-> 0, height |-> 0, src |-> [title |-> -1, box |-> <<0, 0, 0, 0>>],
            rects |-> <<>>, texts |-> <<>>, pastes |-> <<>>]

IsBound(img) == img.src.title # -1

(***************************************************************************)
(* find_faces                                                              *)
(***************************************************************************)
\* The test of line 68, x1 = x+w and y1 = y+h being lines 65-66.
InsideOpenRight(x, y, w, h, testx, testy) ==
    x <= testx /\ testx < x + w /\ y <= testy /\ testy <= y + h

Inside(x, y, w, h, testx, testy) ==
    LET x1 == x + w
        y1 == y + h
    IN  x <= testx /\ testx <= x1 /\ y <= testy /\ testy <= y1

\* The inner loop (lines 67-71) for one face: one append per eye that matches.
RECURSIVE EyeLoop(_, _)
EyeLoop(face, eyes) ==
    IF eyes = <<>> THEN <<>>
    ELSE (IF Inside(face[1], face[2], face[3], face[4], Head(eyes)[1], Head(eyes)[2])
          THEN <<face>> ELSE <<>>)
         \o EyeLoop(face, Tail(eyes))

\* The outer loop (lines 63-71): face_list after the loops.
RECURSIVE FaceLoop(_, _)
FaceLoop(faces, eyes) ==
    IF faces = <<>> THEN <<>>
    ELSE EyeLoop(Head(faces), eyes) \o FaceLoop(Tail(faces), eyes)

\* Python's < on two lists of integers: the first differing element decides,
\* and a proper prefix is smaller.
RECURSIVE ListLess(_, _)
ListLess(a, b) ==
    IF b = <<>> THEN FALSE
    ELSE IF a = <<>> THEN TRUE
    ELSE IF Head(a) # Head(b) THEN Head(a) < Head(b)
    ELSE ListLess(Tail(a), Tail(b))

\* sorted(): a stable sort under ListLess (insertion after the last element
\* that is not greater).
RECURSIVE Insert(_, _)
Insert(e, s) ==
    IF s = <<>> THEN <<e>>
    ELSE IF ListLess(e, Head(s)) THEN <<e>> \o s
    ELSE <<Head(s)>> \o Insert(e, Tail(s))

RECURSIVE InsertAll(_, _)
InsertAll(s, acc) ==
    IF s = <<>> THEN acc ELSE InsertAll(Tail(s), Insert(Head(s), acc))

sortedUnsorted(s) == s

sorted(s) == InsertAll(s, <<>>)

\* list(x for x,_ in itertools.groupby(s)): one key per run of equal elements.
RECURSIVE groupby_keys(_)
groupby_keys(s) ==
    IF s = <<>> THEN <<>>
    ELSE IF Len(s) >= 2 /\ s[1] = s[2] THEN groupby_keys(Tail(s))
    ELSE <<Head(s)>> \o groupby_keys(Tail(s))

\* find_faces, given what the two cascades return for img['gray'].
find_faces(faces, eyes) ==
    LET face_list == FaceLoop(faces, eyes)
        face_list_s == sorted(face_list)
        new_list == groupby_keys(face_list_s)
    IN  new_list

\* get_faces: one crop per box, in order, of size (w, h).
get_faces(title, boxes) ==
    [k \in 1..Len(boxes) |->
        [width |-> boxes[k][3], height |-> boxes[k][4],
         src |-> [title |-> title, box |-> boxes[k]],
         rects |-> <<>>, texts |-> <<>>, pastes |-> <<>>]]

(***************************************************************************)
(* The inputs of find_faces: what the cascades can return.  The face pass  *)
(* asks for boxes of at least 50x50, the eye pass for at least 10x10, both *)
(* for at most 300x300.                                                    *)
(***************************************************************************)
SeqsUpTo(S, n) == UNION {[1..k -> S] : k \in 0..n}

FaceBoxes ==
    {<<0, 0, 50, 50>>, <<0, 0, 50, 60>>, <<0, 0, 60, 50>>,
     <<0, 10, 50, 50>>, <<10, 0, 50, 50>>}

EyeBoxes ==
    {<<0, 0, 10, 10>>, <<60, 50, 10, 10>>, <<50, 60, 10, 10>>,
     <<61, 0, 10, 10>>, <<0, 61, 10, 10>>, <<9, 0, 10, 10>>, <<0, 9, 10, 10>>}

\* Boxes a misbehaving detector could return: zero or negative extent.
MalformedBoxes == {<<0, 0, 0, 50>>, <<0, 0, 50, 0>>, <<10, 0, -10, 50>>}

InitFindFaces ==
    /\ pc = "find_faces"
    /\ \E f \in SeqsUpTo(FaceBoxes, MaxFaces), e \in SeqsUpTo(EyeBoxes, MaxEyes) :
          args = [title |-> 1, faces |-> f, eyes |-> e]
    /\ ret = <<>>
    /\ idx = 0
    /\ contact_sheet = Unbound

InitMalformed ==
    /\ pc = "find_faces"
    /\ \E f \in SeqsUpTo(FaceBoxes \cup MalformedBoxes, MaxFaces - 1),
          e \in SeqsUpTo(EyeBoxes, MaxEyes - 1) :
          args = [title |-> 1, faces |-> f, eyes |-> e]
    /\ ret = <<>>
    /\ idx = 0
    /\ contact_sheet = Unbound

CallFindFaces ==
    /\ pc = "find_faces"
    /\ ret' = [faces_found |-> find_faces(args.faces, args.eyes), image_list |-> <<>>]
    /\ pc' = "get_faces"
    /\ UNCHANGED <<args, idx, contact_sheet>>

CallGetFaces ==
    /\ pc = "get_faces"
    /\ ret' = [ret EXCEPT !.image_list = get_faces(args.title, ret.faces_found)]
    /\ pc' = "done"
    /\ UNCHANGED <<args, idx, contact_sheet>>

NextFindFaces == CallFindFaces \/ CallGetFaces

SpecFindFaces == InitFindFaces /\ [][NextFindFaces]_vars

SpecMalformed == InitMalformed /\ [][NextFindFaces]_vars

Range(s) == {s[k] : k \in 1..Len(s)}

\* C1: a face box is in the output of find_faces iff it is one of the face
\* boxes and some eye box has its top-left corner in the closed rectangle of
\* the face box; no face boxes or no eye boxes give an empty output.
C1_RetainedIffEyeInside ==
    pc # "find_faces" =>
        /\ \A b \in FaceBoxes :
              b \in Range(ret.faces_found) <=>
                  /\ b \in Range(args.faces)
                  /\ \E e \in Range(args.eyes) :
                        /\ b[1] <= e[1] /\ e[1] <= b[1] + b[3]
                        /\ b[2] <= e[2] /\ e[2] <= b[2] + b[4]
        /\ Range(ret.faces_found) \subseteq FaceBoxes
        /\ (args.faces = <<>> \/ args.eyes = <<>>) => ret.faces_found = <<>>

\* A face kept by an eye exactly on its bottom-right corner, next to a face
\* the same eye misses by one pixel.
C1_Witness ==
    /\ pc = "done"
    /\ <<0, 0, 60, 50>> \in Range(ret.faces_found)
    /\ <<0, 0, 50, 50>> \in Range(args.faces) \ Range(ret.faces_found)
    /\ args.eyes = <<<<60, 50, 10, 10>>>>

\* C2: the output of find_faces is strictly increasing in the lexicographic
\* order of (x, y, w, h), hence sorted and without two equal boxes, and it is
\* the same when the detectors emit their boxes in the reverse order.
Precedes(a, b) ==
    \E k \in 1..4 : a[k] < b[k] /\ \A j \in 1..(k - 1) : a[j] = b[j]

Reverse(s) == [k \in 1..Len(s) |-> s[Len(s) + 1 - k]]

C2_SortedNoDuplicates ==
    pc # "find_faces" =>
        /\ \A k \in 1..(Len(ret.faces_found) - 1) :
              Precedes(ret.faces_found[k], ret.faces_found[k + 1])
        /\ find_faces(Reverse(args.faces), Reverse(args.eyes)) = ret.faces_found

\* The same face box emitted twice, out of order with another one, two eyes
\* inside it.
C2_Witness ==
    /\ pc = "done"
    /\ args.faces = <<<<10, 0, 50, 50>>, <<0, 0, 50, 50>>, <<10, 0, 50, 50>>>>
    /\ args.eyes = <<<<60, 50, 10, 10>>, <<0, 0, 10, 10>>>>
    /\ ret.faces_found = <<<<0, 0, 50, 50>>, <<10, 0, 50, 50>>>>

\* C9: a box of non-positive width or height never appears in the output of
\* find_faces and is never cropped.
C9_MalformedRejected ==
    pc # "find_faces" =>
        /\ \A b \in Range(ret.faces_found) : b[3] > 0 /\ b[4] > 0
        /\ \A c \in Range(ret.image_list) : c.width > 0 /\ c.height > 0

(***************************************************************************)
(* make_thumbnails: Image.thumbnail((100, 100)) on each image.  The image  *)
(* is left alone when it fits; otherwise it is scaled down keeping its     *)
(* aspect ratio, the scaled side being the floor or the ceiling of the     *)
(* exact value, whichever keeps the ratio closer (the floor on a tie), and *)
(* at least 1.                                                             *)
(***************************************************************************)
Abs(n) == IF n < 0 THEN -n ELSE n

Max(a, b) == IF a >= b THEN a ELSE b

CeilDiv(a, b) == IF a % b = 0 THEN a \div b ELSE (a \div b) + 1

thumbnail(img) ==
    LET W == img.width
        H == img.height
    IN  IF 100 >= W /\ 100 >= H THEN img
        ELSE IF H >= W
        THEN LET f == (100 * W) \div H
                 c == CeilDiv(100 * W, H)
                 n == IF Abs(100 * W - f * H) <= Abs(100 * W - c * H) THEN f ELSE c
             IN  [img EXCEPT !.width = Max(n, 1), !.height = 100]
        ELSE LET f == (100 * H) \div W
                 c == CeilDiv(100 * H, W)
                 n == IF f = 0 \/ Abs(W * f - 100 * H) * c <= Abs(W * c - 100 * H) * f
                      THEN f ELSE c
             IN  [img EXCEPT !.width = 100, !.height = Max(n, 1)]

make_thumbnails(img_list) == [k \in 1..Len(img_list) |-> thumbnail(img_list[k])]

(***************************************************************************)
(* make_contact_sheet                                                      *)
(***************************************************************************)
\* The local `height` after lines 162-166: the number of grid rows.
SheetRowsNoZeroRule(n) ==
    IF n % 5 # 0 THEN (n \div 5) + 1 ELSE n \div 5

SheetRowsNoRemainder(n) ==
    IF n = 0 THEN 1 ELSE n \div 5

SheetRows(n) ==
    LET h0 == n \div 5
        h1 == IF n % 5 # 0 THEN h0 + 1 ELSE h0
        h2 == IF n = 0 THEN h1 + 1 ELSE h1
    IN  h2

\* Lines 178-182: the cursor after a paste at (x, y).
NextCursorWrapLate(x, y, width) ==
    IF x = width THEN <<0, y + 100>> ELSE <<x + 100, y>>

NextCursor(x, y, width) ==
    IF x + 100 = width THEN <<0, y + 100>> ELSE <<x + 100, y>>

\* Lines 176-182: the pastes of the loop from cursor (x, y) on.
RECURSIVE PasteLoop(_, _, _, _)
PasteLoop(img_list, x, y, width) ==
    IF img_list = <<>> THEN <<>>
    ELSE <<[img |-> Head(img_list), x |-> x, y |-> y]>>
         \o PasteLoop(Tail(img_list), NextCursor(x, y, width)[1],
                      NextCursor(x, y, width)[2], width)

NoFacesText == <<"But there were no faces in that file!">>

make_contact_sheet(img_list, results) ==
    LET height == SheetRows(Len(img_list))
        sheet == NewImage(500, (height * 100) + 50)
        empty == Len(img_list) = 0
    IN  [sheet EXCEPT
            !.rects = <<<<0, 0, 500, 50>>>>
                      \o (IF empty THEN <<<<0, 50, 500, 150>>>> ELSE <<>>),
            !.texts = <<[xy |-> <<5, 5>>, text |-> results]>>
                      \o (IF empty THEN <<[xy |-> <<5, 55>>, text |-> NoFacesText]>>
                          ELSE <<>>),
            !.pastes = PasteLoop(img_list, 0, 50, sheet.width)]

\* The f-string of line 151.
ResultsText(title) == <<"Results found in file ", title>>

\* Thumbnails: crops of page 1 after make_thumbnails, a square one and a
\* narrow one.
Thumbs ==
    {thumbnail(c) : c \in Range(get_faces(1, <<<<0, 0, 200, 200>>, <<0, 0, 50, 60>>>>))}

InitSheet ==
    /\ pc = "make_contact_sheet"
    /\ \E l \in SeqsUpTo(Thumbs, MaxThumbs) :
          args = [img_list |-> l, results |-> ResultsText(1)]
    /\ ret = <<>>
    /\ idx = 0
    /\ contact_sheet = Unbound

CallMakeContactSheet ==
    /\ pc = "make_contact_sheet"
    /\ ret' = make_contact_sheet(args.img_list, args.results)
    /\ pc' = "done"
    /\ UNCHANGED <<args, idx, contact_sheet>>

NextSheet == CallMakeContactSheet

SpecSheet == InitSheet /\ [][NextSheet]_vars

\* C3: the canvas is 500 wide and rows*100 + 50 high, rows being ceil(n/5)
\* for n > 0 thumbnails and 1 for none.
Ceil5(n) == CHOOSE r \in 0..n : 5 * r >= n /\ 5 * (r - 1) < n

C3_CanvasSize ==
    pc = "done" =>
        LET n == Len(args.img_list)
            rows == IF n = 0 THEN 1 ELSE Ceil5(n)
        IN  /\ ret.width = 500
            /\ ret.height = rows * 100 + 50
            /\ (n \in {0, 5}) => ret.height = 150
            /\ n = 6 => ret.height = 250

C3_Witness ==
    pc = "done" /\ Len(args.img_list) = 6 /\ ret.height = 250

\* C4: thumbnail i (0-based) is pasted at x = 100*(i mod 5), y = 50 + 100*(i div 5),
\* one paste per thumbnail, in the order of the list.
C4_RowMajorPlacement ==
    pc = "done" =>
        /\ Len(ret.pastes) = Len(args.img_list)
        /\ \A k \in 1..Len(ret.pastes) :
              /\ ret.pastes[k].img = args.img_list[k]
              /\ ret.pastes[k].x = 100 * ((k - 1) % 5)
              /\ ret.pastes[k].y = 50 + 100 * ((k - 1) \div 5)

C4_Witness ==
    /\ pc = "done"
    /\ Len(ret.pastes) = 7
    /\ ret.pastes[5].x = 400 /\ ret.pastes[5].y = 50
    /\ ret.pastes[6].x = 0 /\ ret.pastes[6].y = 150
    /\ ret.pastes[7].x = 100 /\ ret.pastes[7].y = 150

\* C10: every paste is at a cell inside the canvas: x is one of the five
\* column offsets and 50 <= y <= height - 100.
C10_PastesInsideCanvas ==
    pc = "done" =>
        \A k \in 1..Len(ret.pastes) :
            /\ ret.pastes[k].x \in {0, 100, 200, 300, 400}
            /\ 50 <= ret.pastes[k].y
            /\ ret.pastes[k].y <= ret.height - 100
            /\ ret.pastes[k].x + ret.pastes[k].img.width <= ret.width
            /\ ret.pastes[k].y + ret.pastes[k].img.height <= ret.height

\* The last paste of a sheet whose last row is partly filled sits in the
\* bottom row of the canvas.
C10_Witness ==
    /\ pc = "done"
    /\ Len(ret.pastes) = 11
    /\ ret.pastes[11].y = ret.height - 100
    /\ ret.pastes[11].y = 250

(***************************************************************************)
(* concatenate_images                                                      *)
(***************************************************************************)
concatenate_imagesSecondMisplaced(img1, img2) ==
    LET result == NewImage(img1.width, img1.height + img2.height)
    IN  [result EXCEPT !.pastes = <<[img |-> img1, x |-> 0, y |-> 0],
                                    [img |-> img2, x |-> 0, y |-> img2.height]>>]

concatenate_imagesSecondOnTop(img1, img2) ==
    LET result == NewImage(img1.width, img1.height + img2.height)
    IN  [result EXCEPT !.pastes = <<[img |-> img2, x |-> 0, y |-> 0],
                                    [img |-> img1, x |-> 0, y |-> img2.height]>>]

concatenate_images(img1, img2) ==
    LET result == NewImage(img1.width, img1.height + img2.height)
    IN  [result EXCEPT !.pastes = <<[img |-> img1, x |-> 0, y |-> 0],
                                    [img |-> img2, x |-> 0, y |-> img1.height]>>]

\* The sheets the program builds: the sheet of a page with n faces, and what
\* do_project has accumulated after two such pages.
SheetOf(title, n) ==
    make_contact_sheet(
        make_thumbnails(get_faces(title, [k \in 1..n |-> <<60 * k, 0, 50, 50>>])),
        ResultsText(title))

PageSheets(title) == {SheetOf(title, n) : n \in 0..MaxThumbs}

InitConcat ==
    /\ pc = "concatenate_images"
    /\ \E a \in PageSheets(1) \cup {concatenate_images(s, SheetOf(2, 1)) : s \in PageSheets(1)},
          b \in PageSheets(3) :
          args = [img1 |-> a, img2 |-> b]
    /\ ret = <<>>
    /\ idx = 0
    /\ contact_sheet = Unbound

CallConcatenateImages ==
    /\ pc = "concatenate_images"
    /\ ret' = concatenate_images(args.img1, args.img2)
    /\ pc' = "done"
    /\ UNCHANGED <<args, idx, contact_sheet>>

NextConcat == CallConcatenateImages

SpecConcat == InitConcat /\ [][NextConcat]_vars

\* C5: for two sheets a and b, concatenate_images(a, b) is a new canvas of
\* width max(width_a, width_b) and height height_a + height_b on which a is
\* pasted at (0,0) and b at (0, height_a), a and b being left as they were.
C5_StackedCanvas ==
    pc = "done" =>
        /\ ret.width = Max(args.img1.width, args.img2.width)
        /\ ret.height = args.img1.height + args.img2.height
        /\ ret.src = NoSrc /\ ret.rects = <<>> /\ ret.texts = <<>>
        /\ Len(ret.pastes) = 2
        /\ ret.pastes[1] = [img |-> args.img1, x |-> 0, y |-> 0]
        /\ ret.pastes[2] = [img |-> args.img2, x |-> 0, y |-> args.img1.height]

C5_Witness ==
    /\ pc = "done"
    /\ args.img1.height = 250
    /\ args.img2.height = 150
    /\ ret.height = 400
    /\ ret.pastes[2].y = 250

(***************************************************************************)
(* do_project                                                              *)
(***************************************************************************)
\* str(search_phrase) in img['text']
IsSubstring(p, t) ==
    \E k \in 0..(Len(t) - Len(p)) : SubSeq(t, k + 1, k + Len(p)) = p

phrase_in(img, search_phrase) == IsSubstring(search_phrase, img.text)

\* search_page, called where the phrase is in the text: (face_list, results).
search_page(img, search_phrase, faces) ==
    [face_list |-> get_faces(img.title, faces), results |-> ResultsText(img.title)]

\* What the black boxes give for a page: the text the OCR reads and the boxes
\* of the two cascades.
Scene(n) ==
    [faces |-> [k \in 1..n |-> <<60 * (n - k), 0, 50, 50>>],
     eyes |-> [k \in 1..n |-> <<60 * (n - k) + 20, 20, 10, 10>>]]

Scenes ==
    {Scene(0), Scene(MaxPageFaces),
     [faces |-> <<<<0, 0, 50, 50>>>>, eyes |-> <<>>],
     [faces |-> <<<<100, 100, 200, 150>>, <<0, 0, 50, 50>>>>,
      eyes |-> <<<<150, 150, 10, 10>>, <<10, 10, 10, 10>>, <<50, 50, 10, 10>>>>]}

Phrase == <<"C", "h">>

Texts == {<<"a", "C", "h", "r">>, <<"c", "h", "r">>}

InitProject ==
    /\ pc = "do_project"
    /\ \E n \in 0..MaxDocs :
          \E t \in [1..n -> Texts], s \in [1..n -> Scenes] :
              args = [img_list |-> [k \in 1..n |->
                                       [title |-> k, text |-> t[k],
                                        faces |-> s[k].faces, eyes |-> s[k].eyes]],
                      phrase_to_search |-> Phrase]
    /\ ret = <<>>
    /\ idx = 1
    /\ contact_sheet = Unbound

\* Lines 215-218 for the page under the cursor: the thumbnails and the caption.
PageSheet(img) ==
    LET faces == find_faces(img.faces, img.eyes)
        found == search_page(img, args.phrase_to_search, faces)
        images == make_thumbnails(found.face_list)
    IN  make_contact_sheet(images, found.results)

InLoop == pc = "do_project" /\ idx <= Len(args.img_list)

\* The phrase is not in the page's text (line 216 false).
SkipPage ==
    /\ InLoop
    /\ ~phrase_in(args.img_list[idx], args.phrase_to_search)
    /\ idx' = idx + 1
    /\ UNCHANGED <<pc, args, ret, contact_sheet>>

\* Lines 219-220: the page equals img_list[0].
FirstPage ==
    /\ InLoop
    /\ phrase_in(args.img_list[idx], args.phrase_to_search)
    /\ args.img_list[idx] = args.img_list[1]
    /\ contact_sheet' = PageSheet(args.img_list[idx])
    /\ idx' = idx + 1
    /\ UNCHANGED <<pc, args, ret>>

\* Lines 221-223, contact_sheet assigned before.
StackPage ==
    /\ InLoop
    /\ phrase_in(args.img_list[idx], args.phrase_to_search)
    /\ args.img_list[idx] # args.img_list[1]
    /\ IsBound(contact_sheet)
    /\ LET temp_sheet == PageSheet(args.img_list[idx])
       IN  contact_sheet' = concatenate_images(contact_sheet, temp_sheet)
    /\ idx' = idx + 1
    /\ UNCHANGED <<pc, args, ret>>

\* Lines 221-223, contact_sheet never assigned: reading it at line 223 raises.
StackPageUnbound ==
    /\ InLoop
    /\ phrase_in(args.img_list[idx], args.phrase_to_search)
    /\ args.img_list[idx] # args.img_list[1]
    /\ ~IsBound(contact_sheet)
    /\ pc' = "raised"
    /\ ret' = [error |-> "UnboundLocalError", line |-> 223]
    /\ UNCHANGED <<args, idx, contact_sheet>>

\* Line 224 after the loop.
ReturnSheet ==
    /\ pc = "do_project" /\ idx > Len(args.img_list)
    /\ IsBound(contact_sheet)
    /\ pc' = "returned"
    /\ ret' = contact_sheet
    /\ UNCHANGED <<args, idx, contact_sheet>>

\* Line 224 after the loop, contact_sheet never assigned: the read raises.
ReturnUnbound ==
    /\ pc = "do_project" /\ idx > Len(args.img_list)
    /\ ~IsBound(contact_sheet)
    /\ pc' = "raised"
    /\ ret' = [error |-> "UnboundLocalError", line |-> 224]
    /\ UNCHANGED <<args, idx, contact_sheet>>

Next ==
    \/ SkipPage
    \/ FirstPage
    \/ StackPage
    \/ StackPageUnbound
    \/ ReturnSheet
    \/ ReturnUnbound

Spec == InitProject /\ [][Next]_vars

\* The positions of the pages of the collection whose text holds the phrase.
Matching ==
    {k \in 1..Len(args.img_list) : IsSubstring(Phrase, args.img_list[k].text)}

\* Number of faces of a page that some eye corroborates.
Validated(img) ==
    Cardinality({f \in Range(img.faces) :
        \E e \in Range(img.eyes) :
            /\ f[1] <= e[1] /\ e[1] <= f[1] + f[3]
            /\ f[2] <= e[2] /\ e[2] <= f[2] + f[4]})

\* The contact sheets an image is made of, each with the y of its top edge
\* in the image.
RECURSIVE SheetsIn(_, _)
SheetsIn(img, top) ==
    IF img.texts # <<>> THEN <<[sheet |-> img, top |-> top]>>
    ELSE IF Len(img.pastes) = 2
    THEN SheetsIn(img.pastes[1].img, top + img.pastes[1].y)
         \o SheetsIn(img.pastes[2].img, top + img.pastes[2].y)
    ELSE <<>>

TitleOf(sheet) == sheet.texts[1].text[2]

RECURSIVE SumHeights(_)
SumHeights(placed) ==
    IF placed = <<>> THEN 0 ELSE Head(placed).sheet.height + SumHeights(Tail(placed))

\* The matching positions in increasing order.
RECURSIVE Ascending(_)
Ascending(S) ==
    IF S = {} THEN <<>>
    ELSE LET m == CHOOSE x \in S : \A z \in S : x <= z
         IN  <<m>> \o Ascending(S \ {m})

Ended == pc \in {"returned", "raised"}

\* C6: with at least one matching page, do_project returns the stack of the
\* sheets of the matching pages only, in order, its height the sum of their
\* heights, wherever the first matching page sits in the collection.
C6_MatchingPagesStacked ==
    (Ended /\ Matching # {}) =>
        /\ pc = "returned"
        /\ LET placed == SheetsIn(ret, 0)
           IN  /\ [k \in 1..Len(placed) |-> TitleOf(placed[k].sheet)] = Ascending(Matching)
               /\ ret.height = SumHeights(placed)

\* C7: for two matching pages at positions i < j the sheet of page i lies
\* entirely above the sheet of page j in the output of do_project.
C7_StackedInDocumentOrder ==
    /\ pc = "returned" => ret = contact_sheet
    /\ IsBound(contact_sheet) =>
          LET placed == SheetsIn(contact_sheet, 0)
          IN  \A i, j \in {m \in Matching : m < idx} :
                  i < j =>
                      \E a, b \in 1..Len(placed) :
                          /\ TitleOf(placed[a].sheet) = i
                          /\ TitleOf(placed[b].sheet) = j
                          /\ placed[a].top + placed[a].sheet.height <= placed[b].top

\* Pages 1 and 3 match, page 2 does not; page 1 fills two rows.
C7_Witness ==
    /\ pc = "returned"
    /\ Matching = {1, 3}
    /\ LET placed == SheetsIn(ret, 0)
       IN  /\ Len(placed) = 2
           /\ TitleOf(placed[1].sheet) = 1 /\ placed[1].top = 0
           /\ TitleOf(placed[2].sheet) = 3 /\ placed[2].top = 250

\* C8: do_project returns a sheet, without raising, when a matching page has
\* no validated face, when no page matches, and when there are no pages.
C8_EmptyResultsReturn ==
    (/\ Ended
     /\ \/ args.img_list = <<>>
        \/ Matching = {}
        \/ \E k \in Matching : Validated(args.img_list[k]) = 0)
    => (pc = "returned" /\ IsBound(ret))

====
